---- MODULE Spec2Model ----
(***************************************************************************)
(* The NFL pipeline: nfl_ingestor publishes game records to a durable      *)
(* RabbitMQ queue, nfl_processor consumes them and upserts them into the   *)
(* PostgreSQL table "games".  The module models the processor's main loop, *)
(* process_message, insert_game_data, the three connect loops, and the     *)
(* broker and database the processes talk to.                              *)
(***************************************************************************)
EXTENDS Integers, Sequences, FiniteSets, TLC

\* ------------------------------------------------------------------ bounds
MaxMsgs == 2        \* messages ever placed on the queue
MaxFailures == 7    \* consecutive failed attempts of one connect loop
MaxClock == 1       \* ticks of the database clock (CURRENT_TIMESTAMP)
MaxRows == 2        \* rows of the input file

\* --------------------------------------------------------- program constants
max_delay == 60
initial_retry_delay == 1
prefetch_count == 1

Min(a, b) == IF a <= b THEN a ELSE b

\* An optional value: NULL (JSON null, SQL NULL) or a one-element tuple.
NULL == <<>>
Some(v) == <<v>>

\* ------------------------------------------------------------ the games table
\* Columns named by the INSERT column list.
InsertColumns ==
    {"game_id", "game_date", "away_team", "away_score", "home_team", "home_score",
     "away_spread_open", "away_spread_open_odds", "away_spread_close",
     "away_spread_close_odds", "away_moneyline_open", "away_moneyline_close",
     "home_spread_open", "home_spread_open_odds", "home_spread_close",
     "home_spread_close_odds", "home_moneyline_open", "home_moneyline_close",
     "over_open", "over_open_odds", "over_close", "over_close_odds",
     "under_open", "under_open_odds", "under_close", "under_close_odds"}

\* Columns assigned from EXCLUDED by ON CONFLICT (game_id) DO UPDATE SET.
ExcludedColumns ==
    {"game_date", "away_team", "away_score", "home_team", "home_score",
     "away_spread_open", "away_spread_open_odds", "away_spread_close",
     "away_spread_close_odds", "away_moneyline_open", "away_moneyline_close",
     "home_spread_open", "home_spread_open_odds", "home_spread_close",
     "home_spread_close_odds", "home_moneyline_open", "home_moneyline_close",
     "over_open", "over_open_odds", "over_close", "over_close_odds",
     "under_open", "under_open_odds", "under_close", "under_close_odds"}

TableColumns == InsertColumns \cup {"updated_at"}

\* The keys of a message built by validate_and_parse_row.
MessageKeys == InsertColumns \cup {"processed_at"}

\* Value a column not named by the INSERT takes on a fresh row.
ColumnDefault(c, now) == Some(now)

\* ------------------------------------------------------------------ payloads
GameIds == {1, 2}

BaseMessage(gid) ==
    [k \in MessageKeys |->
        CASE k = "game_id" -> gid
          [] k = "game_date" -> Some("2023-09-10")
          [] k = "away_team" -> Some("Bills")
          [] k = "home_team" -> Some("Jets")
          [] k = "processed_at" -> Some("2023-09-11T00:00:00Z")
          [] OTHER -> NULL]

\* Full betting line: scores and an opening spread (in tenths of a point).
MessageA(gid) ==
    [BaseMessage(gid) EXCEPT !["away_score"] = Some(22), !["home_score"] = Some(16),
                             !["away_spread_open"] = Some(-35)]

\* Another record: a different away score, no home score, no opening spread.
MessageB(gid) == [BaseMessage(gid) EXCEPT !["away_score"] = Some(7)]

ValidMessages == {MessageA(Some(g)) : g \in GameIds} \cup {MessageB(Some(g)) : g \in GameIds}

\* A body is the bytes on the wire: a JSON object, or bytes that are not JSON.
ObjectBody(m) == [kind |-> "object", value |-> m]
ValidBodies == {ObjectBody(m) : m \in ValidMessages}
NullIdBody == ObjectBody(MessageA(NULL))
GarbageBody == [kind |-> "garbage", value |-> BaseMessage(NULL)]
Bodies == ValidBodies \cup {NullIdBody, GarbageBody}

\* ------------------------------------------------------------------- state
Loops == {"ingestor_mq", "processor_mq", "processor_db"}

VARIABLES
    pc,              \* processor: position in main / process_message / insert_game_data
    signal,          \* position at which KeyboardInterrupt was raised, or "none"
    retry_delay,     \* per connect loop: the local retry_delay
    failures,        \* per connect loop: consecutive failed attempts so far
    slept,           \* per connect loop: argument of the last time.sleep
    ingestor_pc,     \* ingestor: position in main
    ingConn,         \* ingestor's broker connection: none / open / closed
    file,            \* the input file: whether it exists, and its rows
    row_count,       \* read_nfl_data: rows read so far
    game_data,       \* <<record>> yielded by read_nfl_data, <<>> when none
    sent,            \* records the ingestor has published, with their row numbers
    outcome,         \* how the ingestor's run ended, "none" while it runs
    endpoint,        \* per connect loop: the endpoint accepts connections
    mqConn,          \* processor's broker connection: none / open / lost / closed
    dbConn,          \* processor's database connection: none / open / lost / closed
    queue,           \* broker: ready messages, oldest first
    unacked,         \* broker: messages delivered to the consumer and not settled
    published,       \* messages ever placed on the queue
    registered,      \* broker: the consumer is registered on the queue
    consumerPrefetch,\* broker: prefetch limit of the registered consumer (0 = none)
    channelPrefetch, \* broker: prefetch limit new consumers of the channel get
    cur,             \* body handed to process_message, <<>> outside it
    delivered,       \* bodies ever handed to process_message
    settle_calls,    \* basic_ack / basic_nack calls made so far by the running process_message
    games,           \* committed rows of the games table
    txn,             \* <<table>> of the open transaction, <<>> when none
    dbClock          \* database clock

connVars == <<retry_delay, failures, slept>>
brokerVars == <<queue, unacked, published, registered, consumerPrefetch, channelPrefetch>>
dbVars == <<games, txn, dbClock>>
msgVars == <<cur>>
histVars == <<delivered, settle_calls>>
fileVars == <<file, row_count, game_data, sent, outcome>>
ingVars == <<ingestor_pc, ingConn, fileVars>>
vars == <<pc, signal, retry_delay, failures, slept, ingVars, endpoint, mqConn, dbConn,
          queue, unacked, published, registered, consumerPrefetch, channelPrefetch,
          cur, delivered, settle_calls, games, txn, dbClock>>

\* An input file without rows.
EmptyFile == [exists |-> TRUE, rows |-> <<>>]

\* Both services are about to connect to their endpoints; the ingestor, at
\* position ipc with its broker connection in state conn, is to read file f.
InitState(f, ipc, conn) ==
    /\ pc = "connect_mq"
    /\ signal = "none"
    /\ retry_delay = [l \in Loops |-> initial_retry_delay]
    /\ failures = [l \in Loops |-> 0]
    /\ slept = [l \in Loops |-> 0]
    /\ ingestor_pc = ipc
    /\ ingConn = conn
    /\ file = f
    /\ row_count = 0
    /\ game_data = <<>>
    /\ sent = <<>>
    /\ outcome = "none"
    /\ endpoint = [l \in Loops |-> TRUE]
    /\ mqConn = "none"
    /\ dbConn = "none"
    /\ queue = <<>>
    /\ unacked = <<>>
    /\ published = 0
    /\ registered = FALSE
    /\ consumerPrefetch = 0
    /\ channelPrefetch = 0
    /\ cur = <<>>
    /\ delivered = {}
    /\ settle_calls = <<>>
    /\ games = {}
    /\ txn = <<>>
    /\ dbClock = 0

\* Both services start; the processor's model does not look at the input file.
Init == InitState(EmptyFile, "connect", "none")

\* --------------------------------------------------------- connect loops
\* Backoff that doubles without the cap.
NextDelayUncapped(d) == d * 2

\* retry_delay = min(retry_delay * 2, max_delay)
NextDelay(d) == Min(d * 2, max_delay)

\* A connection attempt that succeeds whatever the endpoint's state.
AttemptSucceedsAlways(loop) == TRUE

\* pika.BlockingConnection(...) / psycopg2.connect(...) returns a connection when
\* the endpoint accepts connections, and raises when it does not.
AttemptSucceeds(loop) == endpoint[loop]

\* One failed iteration of a connect loop: sleep retry_delay, then back off.
\* The loop has no attempt counter; failures counts the failed attempts as far
\* as MaxFailures.
ConnectFail(loop) ==
    /\ ~AttemptSucceeds(loop)
    /\ slept' = [slept EXCEPT ![loop] = retry_delay[loop]]
    /\ retry_delay' = [retry_delay EXCEPT ![loop] = NextDelay(retry_delay[loop])]
    /\ failures' = [failures EXCEPT ![loop] = Min(failures[loop] + 1, MaxFailures)]

\* The successful iteration: the function returns and its locals are gone.
ConnectOk(loop) ==
    /\ AttemptSucceeds(loop)
    /\ slept' = [slept EXCEPT ![loop] = 0]
    /\ retry_delay' = [retry_delay EXCEPT ![loop] = initial_retry_delay]
    /\ failures' = [failures EXCEPT ![loop] = 0]

\* The endpoint of a running connect loop goes down or comes back.
EndpointFlips(loop) == endpoint' = [endpoint EXCEPT ![loop] = ~endpoint[loop]]

IngestorEndpointFlips ==
    /\ ingestor_pc = "connect"
    /\ EndpointFlips("ingestor_mq")
    /\ UNCHANGED <<histVars, pc, signal, connVars, ingVars, mqConn, dbConn, brokerVars,
                   msgVars, dbVars>>

ProcessorMqEndpointFlips ==
    /\ pc = "connect_mq"
    /\ EndpointFlips("processor_mq")
    /\ UNCHANGED <<histVars, pc, signal, connVars, ingVars, mqConn, dbConn, brokerVars,
                   msgVars, dbVars>>

ProcessorDbEndpointFlips ==
    /\ pc = "connect_db"
    /\ EndpointFlips("processor_db")
    /\ UNCHANGED <<histVars, pc, signal, connVars, ingVars, mqConn, dbConn, brokerVars,
                   msgVars, dbVars>>

IngestorConnectFail ==
    /\ ingestor_pc = "connect"
    /\ ConnectFail("ingestor_mq")
    /\ UNCHANGED <<histVars, pc, signal, ingVars, endpoint, mqConn, dbConn, brokerVars, msgVars, dbVars>>

\* connection = create_rabbitmq_connection(); channel = connection.channel()
IngestorConnectOk ==
    /\ ingestor_pc = "connect"
    /\ ConnectOk("ingestor_mq")
    /\ ingConn' = "open"
    /\ ingestor_pc' = "connected"
    /\ UNCHANGED <<histVars, pc, signal, fileVars, endpoint, mqConn, dbConn, brokerVars,
                   msgVars, dbVars>>

ProcessorMqConnectFail ==
    /\ pc = "connect_mq"
    /\ ConnectFail("processor_mq")
    /\ UNCHANGED <<histVars, pc, signal, ingVars, endpoint, mqConn, dbConn, brokerVars, msgVars, dbVars>>

ProcessorMqConnectOk ==
    /\ pc = "connect_mq"
    /\ ConnectOk("processor_mq")
    /\ mqConn' = "open"
    /\ pc' = "connect_db"
    /\ UNCHANGED <<histVars, signal, ingVars, endpoint, dbConn, brokerVars, msgVars, dbVars>>

ProcessorDbConnectFail ==
    /\ pc = "connect_db"
    /\ ConnectFail("processor_db")
    /\ UNCHANGED <<histVars, pc, signal, ingVars, endpoint, mqConn, dbConn, brokerVars, msgVars, dbVars>>

ProcessorDbConnectOk ==
    /\ pc = "connect_db"
    /\ ConnectOk("processor_db")
    /\ dbConn' = "open"
    /\ pc' = "declare"
    /\ UNCHANGED <<histVars, signal, ingVars, endpoint, mqConn, brokerVars, msgVars, dbVars>>

\* ------------------------------------------------------------ environment
\* A publisher places a persistent message on the durable queue.
Publish ==
    /\ published < MaxMsgs
    /\ \E b \in Bodies : queue' = Append(queue, b)
    /\ published' = published + 1
    /\ UNCHANGED <<histVars, pc, signal, connVars, ingVars, endpoint, mqConn, dbConn, unacked,
                   registered, consumerPrefetch, channelPrefetch, msgVars, dbVars>>

\* The broker hands the oldest ready message to the registered consumer, as far
\* as the consumer's prefetch limit allows (0 = no limit).
Deliver ==
    /\ registered
    /\ mqConn = "open"
    /\ queue # <<>>
    /\ consumerPrefetch = 0 \/ Len(unacked) < consumerPrefetch
    /\ unacked' = Append(unacked, Head(queue))
    /\ queue' = Tail(queue)
    /\ UNCHANGED <<histVars, pc, signal, connVars, ingVars, endpoint, mqConn, dbConn, published,
                   registered, consumerPrefetch, channelPrefetch, msgVars, dbVars>>

\* The broker connection is lost: the broker requeues what was unacknowledged.
LoseMq ==
    /\ mqConn = "open"
    /\ mqConn' = "lost"
    /\ queue' = unacked \o queue
    /\ unacked' = <<>>
    /\ registered' = FALSE
    /\ UNCHANGED <<histVars, pc, signal, connVars, ingVars, endpoint, dbConn, published,
                   consumerPrefetch, channelPrefetch, msgVars, dbVars>>

\* The database connection is lost: the server discards the open transaction
\* (a loss while COMMIT is in flight is CommitError).
LoseDb ==
    /\ dbConn = "open"
    /\ pc # "commit"
    /\ dbConn' = "lost"
    /\ txn' = <<>>
    /\ UNCHANGED <<histVars, pc, signal, connVars, ingVars, endpoint, mqConn, brokerVars, msgVars,
                   games, dbClock>>

\* ----------------------------------------------------------- main, start-up
QueueDeclare ==
    /\ pc = "declare"
    /\ pc' = IF mqConn = "open" THEN "consume" ELSE "closing"
    /\ UNCHANGED <<histVars, signal, connVars, ingVars, endpoint, mqConn, dbConn, brokerVars,
                   msgVars, dbVars>>

\* basic_consume: the consumer is registered with the channel's current limit.
BasicConsume ==
    /\ pc = "consume"
    /\ IF mqConn = "open"
       THEN /\ registered' = TRUE
            /\ consumerPrefetch' = channelPrefetch
            /\ pc' = "qos"
       ELSE /\ pc' = "closing"
            /\ UNCHANGED <<registered, consumerPrefetch>>
    /\ UNCHANGED <<histVars, signal, connVars, ingVars, endpoint, mqConn, dbConn, queue, unacked,
                   published, channelPrefetch, msgVars, dbVars>>

\* basic_qos(prefetch_count=1): the limit for consumers registered from now on; a
\* broker applying it per channel also limits the consumer already registered.
BasicQos ==
    /\ pc = "qos"
    /\ IF mqConn = "open"
       THEN /\ channelPrefetch' = prefetch_count
            /\ consumerPrefetch' \in {consumerPrefetch, prefetch_count}
            /\ pc' = "consuming"
       ELSE /\ pc' = "closing"
            /\ UNCHANGED <<channelPrefetch, consumerPrefetch>>
    /\ UNCHANGED <<histVars, signal, connVars, ingVars, endpoint, mqConn, dbConn, queue, unacked,
                   published, registered, msgVars, dbVars>>


\* ------------------------------------------------------- insert_game_data
\* An upsert that merges: a NULL parameter keeps the stored value.
UpsertMerge(table, params, now) ==
    LET conflict == {row \in table : row["game_id"] = params["game_id"]}
        inserted == [c \in TableColumns |->
                        IF c \in InsertColumns THEN params[c] ELSE ColumnDefault(c, now)]
        updated(row) == [c \in TableColumns |->
                            IF c \in ExcludedColumns
                            THEN (IF params[c] = NULL THEN row[c] ELSE params[c])
                            ELSE IF c = "updated_at" THEN Some(now)
                            ELSE row[c]]
    IN  IF conflict = {}
        THEN table \cup {inserted}
        ELSE (table \ conflict) \cup {updated(row) : row \in conflict}

\* An upsert without conflict handling: a second row for the same key.
UpsertAppend(table, params, now) ==
    table \cup {[c \in TableColumns |->
                    IF c \in InsertColumns THEN params[c] ELSE ColumnDefault(c, now)]}

\* INSERT ... ON CONFLICT (game_id) DO UPDATE SET ..., with the named parameters
\* taken from the message and CURRENT_TIMESTAMP = now.
Upsert(table, params, now) ==
    LET conflict == {row \in table : row["game_id"] = params["game_id"]}
        inserted == [c \in TableColumns |->
                        IF c \in InsertColumns THEN params[c] ELSE ColumnDefault(c, now)]
        updated(row) == [c \in TableColumns |->
                            IF c \in ExcludedColumns THEN params[c]
                            ELSE IF c = "updated_at" THEN Some(now)
                            ELSE row[c]]
    IN  IF conflict = {}
        THEN table \cup {inserted}
        ELSE (table \ conflict) \cup {updated(row) : row \in conflict}

\* Acknowledging whatever insert_game_data returned.
SettleAlwaysAck(success) == "ack"

\* process_message: "if success: basic_ack ... else: basic_nack".
SettleAfterInsert(success) == IF success THEN "ack" ELSE "nack_store"

\* The requeue argument of the basic_nack call at a call site.
NackRequeue(site) == FALSE

\* json.loads(body.decode('utf-8'))
JsonLoads(body) == [ok |-> body.kind # "garbage", value |-> body.value]

message == cur[1].value

ProcessingPcs ==
    {"decode", "execute", "commit", "rollback", "ack",
     "nack_store", "nack_decode", "nack_unexpected"}
NackPcs == {"nack_store", "nack_decode", "nack_unexpected"}
TryPcs == {"declare", "consume", "qos", "consuming"} \cup ProcessingPcs

\* A consumer that hands a delivery to message_handler while another one is
\* still being handled.
DispatchWhileBusy ==
    /\ pc \in {"consuming", "execute", "commit"}
    /\ mqConn = "open"
    /\ unacked # <<>>
    /\ \E i \in 1..Len(unacked) :
          /\ cur' = <<unacked[i]>>
          /\ delivered' = delivered \cup {unacked[i]}
    /\ settle_calls' = <<>>
    /\ pc' = "decode"
    /\ UNCHANGED <<signal, connVars, ingVars, endpoint, mqConn, dbConn, brokerVars, dbVars>>

\* start_consuming hands the oldest delivery to message_handler.
Dispatch ==
    /\ pc = "consuming"
    /\ mqConn = "open"
    /\ unacked # <<>>
    /\ cur' = <<Head(unacked)>>
    /\ delivered' = delivered \cup {Head(unacked)}
    /\ settle_calls' = <<>>
    /\ pc' = "decode"
    /\ UNCHANGED <<signal, connVars, ingVars, endpoint, mqConn, dbConn, brokerVars, dbVars>>

\* start_consuming raises once the connection is gone: "except Exception" in main.
StartConsumingFails ==
    /\ pc = "consuming"
    /\ mqConn = "lost"
    /\ pc' = "closing"
    /\ UNCHANGED <<histVars, signal, connVars, ingVars, endpoint, mqConn, dbConn, brokerVars,
                   msgVars, dbVars>>

\* A handler whose JSONDecodeError branch only logs the error.
DecodeLogsOnly ==
    /\ pc = "decode"
    /\ IF JsonLoads(cur[1]).ok
       THEN pc' = "execute" /\ cur' = cur
       ELSE pc' = "consuming" /\ cur' = <<>>
    /\ UNCHANGED <<histVars, signal, connVars, ingVars, endpoint, mqConn, dbConn, brokerVars,
                   dbVars>>

\* json.loads(body.decode('utf-8'))
Decode ==
    /\ pc = "decode"
    /\ pc' = IF JsonLoads(cur[1]).ok THEN "execute" ELSE "nack_decode"
    /\ UNCHANGED <<histVars, signal, connVars, ingVars, endpoint, mqConn, dbConn, brokerVars,
                   msgVars, dbVars>>

\* cursor.execute succeeds: the upsert is applied inside the open transaction.
ExecuteOk ==
    /\ pc = "execute"
    /\ dbConn = "open"
    /\ message["game_id"] # NULL
    /\ \E t \in {dbClock, Min(dbClock + 1, MaxClock)} :
          /\ dbClock' = t
          /\ txn' = <<Upsert(games, message, t)>>
    /\ pc' = "commit"
    /\ UNCHANGED <<histVars, signal, connVars, ingVars, endpoint, mqConn, dbConn, brokerVars,
                   msgVars, games>>

\* cursor.execute raises psycopg2.IntegrityError (the key is NULL).
ExecuteIntegrityError ==
    /\ pc = "execute"
    /\ dbConn = "open"
    /\ message["game_id"] = NULL
    /\ pc' = "rollback"
    /\ UNCHANGED <<histVars, signal, connVars, ingVars, endpoint, mqConn, dbConn, brokerVars,
                   msgVars, dbVars>>

\* cursor() or cursor.execute raises another error: the connection is gone, or
\* the server cannot run the statement now.
ExecuteError ==
    /\ pc = "execute"
    /\ dbConn \in {"open", "lost"}
    /\ pc' = "rollback"
    /\ UNCHANGED <<histVars, signal, connVars, ingVars, endpoint, mqConn, dbConn, brokerVars,
                   msgVars, dbVars>>

\* db_connection.commit() completes; insert_game_data returns True.
CommitOk ==
    /\ pc = "commit"
    /\ dbConn = "open"
    /\ txn # <<>>
    /\ games' = txn[1]
    /\ txn' = <<>>
    /\ pc' = SettleAfterInsert(TRUE)
    /\ UNCHANGED <<histVars, signal, connVars, ingVars, endpoint, mqConn, dbConn, brokerVars,
                   msgVars, dbClock>>

\* db_connection.commit() raises because the connection breaks during COMMIT:
\* the server has applied the transaction or has not.
CommitError ==
    /\ pc = "commit"
    /\ dbConn = "open"
    /\ txn # <<>>
    /\ \E applied \in BOOLEAN : games' = IF applied THEN txn[1] ELSE games
    /\ dbConn' = "lost"
    /\ txn' = <<>>
    /\ pc' = "rollback"
    /\ UNCHANGED <<histVars, signal, connVars, ingVars, endpoint, mqConn, brokerVars, msgVars,
                   dbClock>>

\* db_connection.rollback() in either except branch, then "return False"; on a
\* dead connection rollback raises and the error reaches process_message.
Rollback ==
    /\ pc = "rollback"
    /\ dbConn \in {"open", "lost"}
    /\ txn' = <<>>
    /\ pc' = IF dbConn = "open" THEN SettleAfterInsert(FALSE) ELSE "nack_unexpected"
    /\ UNCHANGED <<histVars, signal, connVars, ingVars, endpoint, mqConn, dbConn, brokerVars,
                   msgVars, games, dbClock>>

\* ch.basic_ack; when it raises, "except Exception" of process_message runs.
BasicAck ==
    /\ pc = "ack"
    /\ IF mqConn = "open"
       THEN /\ unacked' = Tail(unacked)
            /\ cur' = <<>>
            /\ settle_calls' = <<>>
            /\ pc' = "consuming"
       ELSE /\ pc' = "nack_unexpected"
            /\ settle_calls' = Append(settle_calls, "basic_ack")
            /\ UNCHANGED <<unacked, cur>>
    /\ UNCHANGED <<delivered, signal, connVars, ingVars, endpoint, mqConn, dbConn, queue, published,
                   registered, consumerPrefetch, channelPrefetch, dbVars>>

\* ch.basic_nack(requeue=...); when it raises, the error leaves process_message
\* and start_consuming and reaches "except Exception" in main.
BasicNack ==
    /\ pc \in NackPcs
    /\ IF mqConn = "open"
       THEN /\ unacked' = Tail(unacked)
            /\ queue' = IF NackRequeue(pc) THEN <<Head(unacked)>> \o queue ELSE queue
            /\ cur' = <<>>
            /\ pc' = "consuming"
       ELSE /\ pc' = "closing"
            /\ UNCHANGED <<unacked, queue, cur>>
    /\ settle_calls' = <<>>
    /\ UNCHANGED <<delivered, signal, connVars, ingVars, endpoint, mqConn, dbConn, published,
                   registered, consumerPrefetch, channelPrefetch, dbVars>>

\* -------------------------------------------------------- main, shutdown
\* SIGINT: KeyboardInterrupt is raised at the current position inside main's try
\* block; only "except KeyboardInterrupt" in main catches it.
KeyboardInterrupt ==
    /\ pc \in TryPcs
    /\ signal = "none"
    /\ signal' = pc
    /\ pc' = "stopping"
    /\ UNCHANGED <<histVars, connVars, ingVars, endpoint, mqConn, dbConn, brokerVars, msgVars, dbVars>>

\* rabbitmq_channel.stop_consuming()
StopConsuming ==
    /\ pc = "stopping"
    /\ registered' = IF mqConn = "open" THEN FALSE ELSE registered
    /\ pc' = "closing"
    /\ UNCHANGED <<histVars, signal, connVars, ingVars, endpoint, mqConn, dbConn, queue, unacked,
                   published, consumerPrefetch, channelPrefetch, msgVars, dbVars>>

\* finally: close both connections, errors swallowed.  The broker requeues what
\* is unacknowledged, the database discards the open transaction.
Cleanup ==
    /\ pc = "closing"
    /\ queue' = unacked \o queue
    /\ unacked' = <<>>
    /\ registered' = FALSE
    /\ mqConn' = "closed"
    /\ dbConn' = "closed"
    /\ txn' = <<>>
    /\ pc' = "done"
    /\ settle_calls' = <<>>
    /\ UNCHANGED <<delivered, signal, connVars, ingVars, endpoint, published, consumerPrefetch,
                   channelPrefetch, msgVars, games, dbClock>>

\* The service is started again after it has exited.
Start ==
    /\ pc = "done"
    /\ pc' = "connect_mq"
    /\ signal' = "none"
    /\ mqConn' = "none"
    /\ dbConn' = "none"
    /\ cur' = <<>>
    /\ consumerPrefetch' = 0
    /\ channelPrefetch' = 0
    /\ UNCHANGED <<histVars, connVars, ingVars, endpoint, queue, unacked, published, registered, dbVars>>

\* ================================================================ ingestor
\* ------------------------------------------------------- text and numbers
\* A CSV cell is NULL (the column is missing from the row) or Some(text), a
\* text being the sequence of its characters.  Records carry numbers as
\* integers (decimals counted in tenths) and texts as strings.
Whitespace == {" ", "\t"}
Digits == {"0", "1", "2", "3", "4", "5", "6", "7", "8", "9"}

DigitValue(c) ==
    CASE c = "0" -> 0 [] c = "1" -> 1 [] c = "2" -> 2 [] c = "3" -> 3 [] c = "4" -> 4
      [] c = "5" -> 5 [] c = "6" -> 6 [] c = "7" -> 7 [] c = "8" -> 8 [] c = "9" -> 9

RECURSIVE LStrip(_)
LStrip(s) == IF s # <<>> /\ Head(s) \in Whitespace THEN LStrip(Tail(s)) ELSE s

RECURSIVE RStrip(_)
RStrip(s) ==
    IF s # <<>> /\ s[Len(s)] \in Whitespace THEN RStrip(SubSeq(s, 1, Len(s) - 1)) ELSE s

\* str.strip()
Strip(s) == RStrip(LStrip(s))

\* The string made of the characters of s.
RECURSIVE JoinChars(_)
JoinChars(s) == IF s = <<>> THEN "" ELSE Head(s) \o JoinChars(Tail(s))

AllDigits(s) == s # <<>> /\ \A i \in 1..Len(s) : s[i] \in Digits

RECURSIVE DigitsValue(_)
DigitsValue(s) ==
    IF s = <<>> THEN 0
    ELSE DigitsValue(SubSeq(s, 1, Len(s) - 1)) * 10 + DigitValue(s[Len(s)])

\* The text without its sign, and the sign's factor.
Unsigned(t) == IF t # <<>> /\ Head(t) \in {"+", "-"} THEN Tail(t) ELSE t
SignOf(t) == IF t # <<>> /\ Head(t) = "-" THEN -1 ELSE 1

\* int(text): surrounding whitespace, an optional sign, decimal digits; NULL
\* stands for ValueError.
PyInt(s) ==
    LET t == Strip(s)
    IN  IF AllDigits(Unsigned(t)) THEN Some(SignOf(t) * DigitsValue(Unsigned(t))) ELSE NULL

\* float(text) for plain decimal notation, in tenths: surrounding whitespace,
\* an optional sign, digits with at most one point and a digit on one side of
\* it at least; NULL stands for ValueError.  Fractional digits after the first
\* are not kept.
PyFloat(s) ==
    LET t == Strip(s)
        body == Unsigned(t)
        points == {i \in 1..Len(body) : body[i] = "."}
    IN  IF points = {}
        THEN IF AllDigits(body) THEN Some(SignOf(t) * DigitsValue(body) * 10) ELSE NULL
        ELSE LET p == CHOOSE i \in points : \A j \in points : i <= j
                 whole == SubSeq(body, 1, p - 1)
                 frac == SubSeq(body, p + 1, Len(body))
             IN  IF /\ whole = <<>> \/ AllDigits(whole)
                    /\ frac = <<>> \/ AllDigits(frac)
                    /\ whole # <<>> \/ frac # <<>>
                 THEN Some(SignOf(t) * (DigitsValue(whole) * 10
                                          + (IF frac = <<>> THEN 0 ELSE DigitValue(frac[1]))))
                 ELSE NULL

\* Truth value of a cell: None and '' are false.
Truthy(value) == value # NULL /\ value[1] # <<>>

\* A safe_int that turns a blank cell into 0.
safe_int_zero(value) ==
    IF Truthy(value) /\ Strip(value[1]) # <<>> THEN PyInt(Strip(value[1])) ELSE Some(0)

safe_int(value) ==
    IF Truthy(value) /\ Strip(value[1]) # <<>> THEN PyInt(Strip(value[1])) ELSE NULL

safe_float(value) ==
    IF Truthy(value) /\ Strip(value[1]) # <<>> THEN PyFloat(Strip(value[1])) ELSE NULL

\* datetime.date: the proleptic Gregorian calendar, years 1 to 9999.
IsLeap(y) == (y % 4 = 0 /\ y % 100 # 0) \/ y % 400 = 0

\* A calendar in which February always has 28 days.
DaysInMonthNoLeap(y, m) ==
    CASE m = 2 -> 28
      [] m \in {4, 6, 9, 11} -> 30
      [] OTHER -> 31

DaysInMonth(y, m) ==
    CASE m = 2 -> IF IsLeap(y) THEN 29 ELSE 28
      [] m \in {4, 6, 9, 11} -> 30
      [] OTHER -> 31

\* date(y, m, d) does not raise ValueError.
IsDate(y, m, d) ==
    /\ y \in 1..9999
    /\ m \in 1..12
    /\ d >= 1 /\ d <= DaysInMonth(y, m)

RECURSIVE Zeros(_)
Zeros(k) == IF k <= 0 THEN "" ELSE "0" \o Zeros(k - 1)

\* "%0wd" % n
ZeroPad(n, w) == Zeros(w - Len(ToString(n))) \o ToString(n)

\* date.isoformat()
IsoFormat(y, m, d) == ZeroPad(y, 4) \o "-" \o ZeroPad(m, 2) \o "-" \o ZeroPad(d, 2)

parse_date(date_str) ==
    IF Truthy(date_str) /\ Len(date_str[1]) = 8
    THEN LET year == PyInt(SubSeq(date_str[1], 1, 4))
             month == PyInt(SubSeq(date_str[1], 5, 6))
             day == PyInt(SubSeq(date_str[1], 7, 8))
         IN  IF /\ year # NULL /\ month # NULL /\ day # NULL
                /\ IsDate(year[1], month[1], day[1])
             THEN Some(IsoFormat(year[1], month[1], day[1]))
             ELSE NULL
    ELSE NULL

\* ------------------------------------------------------------ the row codec
\* The CSV column a record key is read from.
CsvColumn(k) ==
    CASE k = "game_id" -> "Game ID"
      [] k = "game_date" -> "Date"
      [] k = "away_team" -> "Away Team"
      [] k = "away_score" -> "Away Score"
      [] k = "home_team" -> "Home Team"
      [] k = "home_score" -> "Home Score"
      [] k = "away_spread_open" -> "Away Spread Open"
      [] k = "away_spread_open_odds" -> "Away Spread Open Odds"
      [] k = "away_spread_close" -> "Away Spread Close"
      [] k = "away_spread_close_odds" -> "Away Spread Close Odds"
      [] k = "away_moneyline_open" -> "Away MoneyLine Open"
      [] k = "away_moneyline_close" -> "Away MoneyLine Close"
      [] k = "home_spread_open" -> "Home Spread Open"
      [] k = "home_spread_open_odds" -> "Home Spread Open Odds"
      [] k = "home_spread_close" -> "Home Spread Close"
      [] k = "home_spread_close_odds" -> "Home Spread Close Odds"
      [] k = "home_moneyline_open" -> "Home MoneyLine Open"
      [] k = "home_moneyline_close" -> "Home MoneyLine Close"
      [] k = "over_open" -> "Over Open"
      [] k = "over_open_odds" -> "Over Open Odds"
      [] k = "over_close" -> "Over Close"
      [] k = "over_close_odds" -> "Over Close Odds"
      [] k = "under_open" -> "Under Open"
      [] k = "under_open_odds" -> "Under Open Odds"
      [] k = "under_close" -> "Under Close"
      [] k = "under_close_odds" -> "Under Close Odds"

CsvColumns == {CsvColumn(k) : k \in InsertColumns}

\* Record keys parsed with safe_float; the other numeric keys use safe_int.
FloatKeys ==
    {"away_spread_open", "away_spread_close", "home_spread_open", "home_spread_close",
     "over_open", "over_close", "under_open", "under_close"}

RequiredKeys == {"game_id", "game_date", "away_team", "home_team"}
OptionalKeys == InsertColumns \ RequiredKeys

\* datetime.utcnow().isoformat() + "Z": the reading of the ingestor's clock.
UtcNow == "2023-09-11T00:00:00Z"

\* The dict literal game_data = {...}, evaluated past the required-fields test.
BuildRecord(row) ==
    [k \in MessageKeys |->
        CASE k = "game_id" -> safe_int(row["Game ID"])
          [] k = "game_date" -> parse_date(row["Date"])
          [] k \in {"away_team", "home_team"} -> Some(JoinChars(Strip(row[CsvColumn(k)][1])))
          [] k = "processed_at" -> Some(UtcNow)
          [] k \in FloatKeys -> safe_float(row[CsvColumn(k)])
          [] OTHER -> safe_int(row[CsvColumn(k)])]

\* A validation that does not look at the stripped team names.
validate_and_parse_row_teams_unchecked(row) ==
    IF ~(/\ Truthy(row["Game ID"]) /\ Truthy(row["Date"])
         /\ Truthy(row["Away Team"]) /\ Truthy(row["Home Team"]))
    THEN NULL
    ELSE LET record == BuildRecord(row)
         IN  IF record["game_id"] \in {NULL, Some(0)} \/ record["game_date"] = NULL
             THEN NULL
             ELSE Some(record)

\* NULL when the row is rejected, Some(record) otherwise.  "not x" is true of
\* None, 0 and ''.
validate_and_parse_row(row) ==
    IF ~(/\ Truthy(row["Game ID"]) /\ Truthy(row["Date"])
         /\ Truthy(row["Away Team"]) /\ Truthy(row["Home Team"]))
    THEN NULL
    ELSE LET record == BuildRecord(row)
         IN  IF record["game_id"] \in {NULL, Some(0)} \/ record["game_date"] = NULL
             THEN NULL
             ELSE IF record["away_team"] = Some("") \/ record["home_team"] = Some("")
                  THEN NULL
                  ELSE Some(record)

\* ---------------------------------------------------------------- input rows
\* The row of the end-to-end scenario: game 5001, 2023-09-10, Bills at Jets,
\* 22:16, with betting columns; the remaining cells are empty.
ExampleRow ==
    [c \in CsvColumns |->
        CASE c = "Game ID" -> Some(<<"5", "0", "0", "1">>)
          [] c = "Date" -> Some(<<"2", "0", "2", "3", "0", "9", "1", "0">>)
          [] c = "Away Team" -> Some(<<"B", "i", "l", "l", "s">>)
          [] c = "Home Team" -> Some(<<"J", "e", "t", "s">>)
          [] c = "Away Score" -> Some(<<"2", "2">>)
          [] c = "Home Score" -> Some(<<"1", "6">>)
          [] c = "Away Spread Open" -> Some(<<"-", "3", ".", "5">>)
          [] c = "Away Spread Open Odds" -> Some(<<"-", "1", "1", "0">>)
          [] c = "Over Open" -> Some(<<"4", "1", ".", "5">>)
          [] OTHER -> Some(<<>>)]

\* A later row for the same game: another score, no home score, no spread.
UpdateRow ==
    [ExampleRow EXCEPT !["Away Score"] = Some(<<"7">>), !["Home Score"] = Some(<<>>),
                       !["Away Spread Open"] = NULL]

\* Another game.
OtherRow == [ExampleRow EXCEPT !["Game ID"] = Some(<<"5", "0", "0", "2">>)]

\* A row whose Game ID is blank, and one whose Game ID is negative.
BlankIdRow == [ExampleRow EXCEPT !["Game ID"] = Some(<<>>)]
NegativeIdRow == [ExampleRow EXCEPT !["Game ID"] = Some(<<"-", "5">>)]

\* Game ID cells: missing, blank, not integers, zero, negative, positive.
IdCells ==
    {NULL, Some(<<>>), Some(<<" ">>), Some(<<"x">>), Some(<<"5", ".", "0">>),
     Some(<<"0">>), Some(<<"0", "0">>), Some(<<"-", "0">>), Some(<<"-", "5">>),
     Some(<<"5">>), Some(<<" ", "7", " ">>)}

\* Date cells: every combination of these years, months and days, and cells
\* that are not eight digits.
YearTexts ==
    {<<"0", "0", "0", "0">>, <<"0", "0", "0", "1">>, <<"1", "9", "0", "0">>,
     <<"2", "0", "0", "0">>, <<"2", "0", "2", "3">>, <<"2", "0", "2", "4">>}
MonthTexts == {<<"0", "0">>, <<"0", "1">>, <<"0", "2">>, <<"0", "4">>, <<"1", "2">>, <<"1", "3">>}
DayTexts ==
    {<<"0", "0">>, <<"0", "1">>, <<"2", "8">>, <<"2", "9">>, <<"3", "0">>, <<"3", "1">>,
     <<"3", "2">>}
DigitDateCells == {Some(y \o m \o d) : y \in YearTexts, m \in MonthTexts, d \in DayTexts}
OtherDateCells ==
    {NULL, Some(<<>>), Some(<<" ">>),
     Some(<<" ", " ", " ", " ", " ", " ", " ", " ">>),
     Some(<<"2", "0", "2", "3", "0", "9", "1">>),
     Some(<<"2", "0", "2", "3", "0", "9", "1", "0", "0">>),
     Some(<<"2", "0", "2", "3", "-", "9", "-", "1">>),
     Some(<<"2", "0", "2", "3", " ", "1", " ", "1">>)}
DateCells == DigitDateCells \cup OtherDateCells

TeamCells ==
    {NULL, Some(<<>>), Some(<<" ">>), Some(<<" ", " ">>), Some(<<"J", "e", "t", "s">>),
     Some(<<"B", "i", "l", "l", "s">>), Some(<<" ", "J", "e", "t", "s", " ">>)}

\* Cells of the optional numeric columns.
BlankCells == {NULL, Some(<<>>), Some(<<" ">>), Some(<<" ", "\t">>)}
UnparseableCells == {Some(<<"x">>), Some(<<"-">>), Some(<<".">>), Some(<<"1", "x">>)}
DecimalCells == {Some(<<"0", ".", "0">>), Some(<<"-", "3", ".", "5">>)}
ZeroCell == Some(<<"0">>)
NumberCells ==
    BlankCells \cup UnparseableCells \cup DecimalCells
        \cup {ZeroCell, Some(<<" ", "0", " ">>), Some(<<"2", "2">>), Some(<<"-", "7">>)}

\* The rows the codec is exercised on.
CodecRows ==
    {[ExampleRow EXCEPT !["Game ID"] = i, !["Date"] = d] : i \in IdCells, d \in DateCells}
        \cup {[ExampleRow EXCEPT !["Away Team"] = a, !["Home Team"] = h] :
                 a \in TeamCells, h \in TeamCells}
        \cup {[ExampleRow EXCEPT ![CsvColumn(k)] = t] : k \in OptionalKeys, t \in NumberCells}

\* ------------------------------------------------------------- input files
MissingFile == [exists |-> FALSE, rows |-> <<>>]

IngestorRows == {ExampleRow, UpdateRow, OtherRow, BlankIdRow, NegativeIdRow}

\* The input file is missing, or holds up to MaxRows rows.
Files ==
    {MissingFile}
        \cup {[exists |-> TRUE, rows |-> r] :
                 r \in UNION {[1..n -> IngestorRows] : n \in 0..MaxRows}}

\* validate_and_parse_row, tabulated over the rows of the model.
ParsedRow == [r \in IngestorRows \cup CodecRows |-> validate_and_parse_row(r)]

\* The ingestor starts on one of the files.
InitIngestor == \E f \in Files : InitState(f, "connect", "none")

\* The ingestor, connected, is about to read a file of one row.
InitCodec ==
    \E r \in CodecRows : InitState([exists |-> TRUE, rows |-> <<r>>], "connected", "open")

\* ------------------------------------------------------------ ingestor main
\* A first iteration that takes a missing file for an empty one.
OpenFileIgnoresMissing ==
    /\ ingestor_pc = "connected"
    /\ ingestor_pc' = "read"
    /\ UNCHANGED <<histVars, pc, signal, connVars, ingConn, fileVars, endpoint, mqConn,
                   dbConn, brokerVars, msgVars, dbVars>>

\* The for statement starts the generator read_nfl_data: os.path.exists, then
\* open; FileNotFoundError goes to main's handler and from there to finally.
OpenFile ==
    /\ ingestor_pc = "connected"
    /\ IF file.exists
       THEN /\ ingestor_pc' = "read"
            /\ UNCHANGED outcome
       ELSE /\ ingestor_pc' = "closing"
            /\ outcome' = "file_error"
    /\ UNCHANGED <<histVars, pc, signal, connVars, ingConn, file, row_count, game_data,
                   sent, endpoint, mqConn, dbConn, brokerVars, msgVars, dbVars>>

\* A reader that gives up at the first rejected row.
ReadRowStopsAtInvalid ==
    /\ ingestor_pc = "read"
    /\ IF row_count < Len(file.rows)
       THEN LET parsed_data == ParsedRow[file.rows[row_count + 1]]
            IN  /\ row_count' = row_count + 1
                /\ IF parsed_data # NULL
                   THEN /\ game_data' = parsed_data
                        /\ ingestor_pc' = "publish"
                        /\ UNCHANGED outcome
                   ELSE /\ ingestor_pc' = "closing"
                        /\ outcome' = "ok"
                        /\ UNCHANGED game_data
       ELSE /\ ingestor_pc' = "closing"
            /\ outcome' = "ok"
            /\ UNCHANGED <<row_count, game_data>>
    /\ UNCHANGED <<histVars, pc, signal, connVars, ingConn, file, sent, endpoint, mqConn,
                   dbConn, brokerVars, msgVars, dbVars>>

\* One iteration of "for row in reader": the row is parsed and yielded to main's
\* loop, or rejected and the next row is read; after the last row the generator
\* ends, main logs success and goes to finally.
ReadRow ==
    /\ ingestor_pc = "read"
    /\ IF row_count < Len(file.rows)
       THEN LET parsed_data == ParsedRow[file.rows[row_count + 1]]
            IN  /\ row_count' = row_count + 1
                /\ IF parsed_data # NULL
                   THEN /\ game_data' = parsed_data
                        /\ ingestor_pc' = "publish"
                   ELSE /\ ingestor_pc' = "read"
                        /\ UNCHANGED game_data
                /\ UNCHANGED outcome
       ELSE /\ ingestor_pc' = "closing"
            /\ outcome' = "ok"
            /\ UNCHANGED <<row_count, game_data>>
    /\ UNCHANGED <<histVars, pc, signal, connVars, ingConn, file, sent, endpoint, mqConn,
                   dbConn, brokerVars, msgVars, dbVars>>

\* publish_message returns: queue_declare, then basic_publish of
\* json.dumps(message) as a persistent message; games_processed += 1, sleep.
PublishOk ==
    /\ ingestor_pc = "publish"
    /\ queue' = Append(queue, ObjectBody(game_data[1]))
    /\ published' = published + 1
    /\ sent' = Append(sent, [row |-> row_count, message |-> game_data[1]])
    /\ game_data' = <<>>
    /\ ingestor_pc' = "read"
    /\ UNCHANGED <<histVars, pc, signal, connVars, ingConn, file, row_count, outcome,
                   endpoint, mqConn, dbConn, unacked, registered, consumerPrefetch,
                   channelPrefetch, msgVars, dbVars>>

\* A failed publish after which the loop goes on with the next row.
PublishFailContinues ==
    /\ ingestor_pc = "publish"
    /\ outcome' = "publish_error"
    /\ game_data' = <<>>
    /\ ingestor_pc' = "read"
    /\ UNCHANGED <<histVars, pc, signal, connVars, ingConn, file, row_count, sent,
                   endpoint, mqConn, dbConn, brokerVars, msgVars, dbVars>>

\* queue_declare or basic_publish raises: publish_message logs and re-raises,
\* the for loop is left through "except Exception" of main.
PublishFail ==
    /\ ingestor_pc = "publish"
    /\ outcome' = "publish_error"
    /\ game_data' = <<>>
    /\ ingestor_pc' = "closing"
    /\ UNCHANGED <<histVars, pc, signal, connVars, ingConn, file, row_count, sent,
                   endpoint, mqConn, dbConn, brokerVars, msgVars, dbVars>>

\* SIGINT inside main's try block: "except KeyboardInterrupt".
IngestorInterrupt ==
    /\ ingestor_pc \in {"connected", "read", "publish"}
    /\ outcome' = "interrupted"
    /\ game_data' = <<>>
    /\ ingestor_pc' = "closing"
    /\ UNCHANGED <<histVars, pc, signal, connVars, ingConn, file, row_count, sent,
                   endpoint, mqConn, dbConn, brokerVars, msgVars, dbVars>>

\* finally: connection.close(), errors swallowed; main returns.
IngestorClose ==
    /\ ingestor_pc = "closing"
    /\ ingConn' = "closed"
    /\ ingestor_pc' = "done"
    /\ UNCHANGED <<histVars, pc, signal, connVars, fileVars, endpoint, mqConn, dbConn,
                   brokerVars, msgVars, dbVars>>

Next ==
    \/ ProcessorMqEndpointFlips
    \/ ProcessorDbEndpointFlips
    \/ ProcessorMqConnectFail
    \/ ProcessorMqConnectOk
    \/ ProcessorDbConnectFail
    \/ ProcessorDbConnectOk
    \/ Publish
    \/ Deliver
    \/ LoseMq
    \/ LoseDb
    \/ QueueDeclare
    \/ BasicConsume
    \/ BasicQos
    \/ Dispatch
    \/ StartConsumingFails
    \/ Decode
    \/ ExecuteOk
    \/ ExecuteIntegrityError
    \/ ExecuteError
    \/ CommitOk
    \/ CommitError
    \/ Rollback
    \/ BasicAck
    \/ BasicNack
    \/ KeyboardInterrupt
    \/ StopConsuming
    \/ Cleanup
    \/ Start

Spec == Init /\ [][Next]_vars

\* The three connect loops on their own.
NextConnect ==
    \/ IngestorEndpointFlips
    \/ ProcessorMqEndpointFlips
    \/ ProcessorDbEndpointFlips
    \/ IngestorConnectFail
    \/ IngestorConnectOk
    \/ ProcessorMqConnectFail
    \/ ProcessorMqConnectOk
    \/ ProcessorDbConnectFail
    \/ ProcessorDbConnectOk

SpecConnect == Init /\ [][NextConnect]_vars


\* The codec and the publishing loop on single-row files.
NextCodec ==
    \/ OpenFile
    \/ ReadRow
    \/ PublishOk
    \/ IngestorClose

SpecCodec == InitCodec /\ [][NextCodec]_vars

\* A run of the ingestor without a shutdown signal.
NextIngestorRun ==
    \/ IngestorEndpointFlips
    \/ IngestorConnectFail
    \/ IngestorConnectOk
    \/ OpenFile
    \/ ReadRow
    \/ PublishOk
    \/ PublishFail
    \/ IngestorClose

\* The ingestor, with and without a shutdown signal.
NextIngestor == NextIngestorRun \/ IngestorInterrupt

SpecIngestor == InitIngestor /\ [][NextIngestor]_vars

\* The ingestor's process keeps running: a step of main that can be taken is
\* eventually taken, and a call of publish_message returns or raises.
FairIngestor ==
    /\ InitIngestor /\ [][NextIngestorRun]_vars
    /\ WF_vars(IngestorConnectFail \/ IngestorConnectOk)
    /\ WF_vars(OpenFile) /\ WF_vars(ReadRow)
    /\ WF_vars(PublishOk \/ PublishFail)
    /\ WF_vars(IngestorClose)

\* Both services in a run without failures: the broker and the database are
\* available and stay connected, no publish fails, no signal arrives.
NextPipeline ==
    \/ IngestorConnectOk
    \/ OpenFile
    \/ ReadRow
    \/ PublishOk
    \/ IngestorClose
    \/ ProcessorMqConnectOk
    \/ ProcessorDbConnectOk
    \/ QueueDeclare
    \/ BasicConsume
    \/ BasicQos
    \/ Deliver
    \/ Dispatch
    \/ Decode
    \/ ExecuteOk
    \/ CommitOk
    \/ BasicAck

\* Both processes keep running and the broker keeps delivering.
FairPipeline ==
    /\ InitIngestor /\ [][NextPipeline]_vars
    /\ WF_vars(IngestorConnectOk) /\ WF_vars(OpenFile) /\ WF_vars(ReadRow)
    /\ WF_vars(PublishOk) /\ WF_vars(IngestorClose)
    /\ WF_vars(ProcessorMqConnectOk) /\ WF_vars(ProcessorDbConnectOk)
    /\ WF_vars(QueueDeclare) /\ WF_vars(BasicConsume) /\ WF_vars(BasicQos)
    /\ WF_vars(Deliver) /\ WF_vars(Dispatch) /\ WF_vars(Decode)
    /\ WF_vars(ExecuteOk) /\ WF_vars(CommitOk) /\ WF_vars(BasicAck)

\* The connect loops with the processes kept running: a loop goes on making
\* attempts, each of which succeeds or fails as the endpoint decides.
FairConnect ==
    /\ SpecConnect
    /\ WF_vars(IngestorConnectFail \/ IngestorConnectOk)
    /\ WF_vars(ProcessorMqConnectFail \/ ProcessorMqConnectOk)
    /\ WF_vars(ProcessorDbConnectFail \/ ProcessorDbConnectOk)


\* ================================================================ properties
StoppedPcs == {"stopping", "closing", "done"}

\* Positions inside start_consuming: waiting for a message or handling one.
LoopPcs == {"consuming"} \cup ProcessingPcs

\* The table holds a row equal to message m in every column the INSERT names.
Stored(m) == \E row \in games : \A c \in InsertColumns : row[c] = m[c]

RowsOf(table, gid) == {row \in table : row["game_id"] = gid}

\* basic_nack returned: the delivery is settled and the handler is back in the loop.
NackStep == pc \in NackPcs /\ pc' = "consuming"

\* basic_nack was called (it returned or raised), no signal interfering.
NackCall == pc \in NackPcs /\ pc' # pc /\ signal' = signal

\* db_connection.commit() returned.
CommitStep == pc = "commit" /\ pc' \notin {"commit", "rollback", "stopping"}

\* C1: a valid record whose storage write fails because the database is
\* unavailable is not dropped: its message never leaves the queue (rejected
\* without requeue) unless a row holding the record is committed.
NoLossOnDatabaseFailure ==
    [][(NackStep /\ cur[1] \in ValidBodies /\ queue' = queue) => Stored(message)]_vars

\* C2: whatever is delivered, redelivered and interleaved, the table holds at
\* most one row per game_id, and every row equals, column for column, the
\* record of one single delivered message.
DuplicateDeliverySafe ==
    /\ \A r1, r2 \in games : r1["game_id"] = r2["game_id"] => r1 = r2
    /\ \A row \in games :
          \E b \in delivered :
             /\ JsonLoads(b).ok
             /\ \A c \in InsertColumns : row[c] = b.value[c]

\* C2 witness: the only message ever published is being stored a second time
\* (it was redelivered after its row was committed).
DuplicateDeliveryWitness ==
    /\ published = 1
    /\ pc = "commit"
    /\ txn # <<>>
    /\ Stored(message)

\* C3 as claimed: a committed upsert onto an existing row for the game_id leaves
\* exactly one row for it, every mutable column equal to the new record (absent
\* where the record is absent), the row count unchanged, and, when the record
\* equals the stored one, no column of the row changed at all.
UpsertOverwriteNoFieldChanges ==
    [][(CommitStep /\ RowsOf(games, message["game_id"]) # {}) =>
        LET old == RowsOf(games, message["game_id"])
            new == RowsOf(games', message["game_id"])
        IN  /\ Cardinality(new) = 1
            /\ \A row \in new : \A c \in ExcludedColumns : row[c] = message[c]
            /\ Cardinality(games') = Cardinality(games)
            /\ (\A row \in old : \A c \in InsertColumns : row[c] = message[c])
                  => new = old]_vars

\* C3 amended: as above, but re-applying the stored record changes no column of
\* the row other than updated_at, which the upsert sets to CURRENT_TIMESTAMP.
UpsertOverwrite ==
    [][(CommitStep /\ RowsOf(games, message["game_id"]) # {}) =>
        LET old == RowsOf(games, message["game_id"])
            new == RowsOf(games', message["game_id"])
        IN  /\ Cardinality(new) = 1
            /\ \A row \in new : \A c \in ExcludedColumns : row[c] = message[c]
            /\ Cardinality(games') = Cardinality(games)
            /\ (\A row \in old : \A c \in InsertColumns : row[c] = message[c])
                  => \A o \in old : \A n \in new :
                        \A c \in TableColumns \ {"updated_at"} : n[c] = o[c]]_vars

\* C3 witness: the stored row has an opening spread, the record being applied
\* has none, and the upsert has left the column absent in the transaction.
UpsertOverwriteWitness ==
    /\ pc = "commit"
    /\ txn # <<>>
    /\ message["away_spread_open"] = NULL
    /\ \E row \in RowsOf(games, message["game_id"]) : row["away_spread_open"] # NULL
    /\ \A row \in RowsOf(txn[1], message["game_id"]) : row["away_spread_open"] = NULL
    /\ Cardinality(txn[1]) = Cardinality(games)

\* C4: at most one message is delivered to the consumer and not yet settled.
AtMostOneUnacked == Len(unacked) <= prefetch_count

\* C5: basic_ack is only called for a body that decoded and whose record
\* insert_game_data has upserted and committed (no transaction left open).
AckOnlyAfterCommit ==
    pc = "ack" =>
        /\ cur # <<>>
        /\ JsonLoads(cur[1]).ok
        /\ txn = <<>>
        /\ Stored(message)

\* C5 witness: the handler is about to acknowledge a message whose row is stored.
AckAfterCommitWitness ==
    /\ pc = "ack"
    /\ mqConn = "open"
    /\ unacked # <<>>
    /\ Stored(message)

\* C6: every basic_nack is issued with requeue=false, leaves the queue as it
\* was, and the consumer goes back to its loop for the next message.
RejectWithoutRequeueAndContinue ==
    [][NackCall => (~NackRequeue(pc) /\ queue' = queue /\ pc' = "consuming")]_vars

\* C7: without a shutdown signal the consumer never leaves its consuming loop,
\* whatever fails while a message is received, processed, acked or nacked.
LoopEndsOnlyOnSignal == [][(pc \in LoopPcs /\ signal' = "none") => pc' \in LoopPcs]_vars

\* C8: when the signal arrives in the middle of a message, the consumer stops
\* only after that message is finished (no delivery in flight, no transaction
\* open), and once it has stopped both connections are closed.
InFlightMessageCompletes ==
    /\ (pc \in StoppedPcs /\ signal \in ProcessingPcs) => (cur = <<>> /\ txn = <<>>)
    /\ pc = "done" => (mqConn = "closed" /\ dbConn = "closed")

\* C9: a connection lost after start-up only delays: with the broker connection
\* lost the consumer does not go into shutdown, and with the database
\* connection lost it does not reject (drop) a valid message.
TransportErrorRecovered ==
    [][/\ (mqConn = "lost" /\ pc \in LoopPcs /\ signal' = "none") => pc' # "closing"
       /\ (dbConn = "lost" /\ NackStep) => cur[1] \notin ValidBodies]_vars

\* C10: in each connect loop the delay slept after n consecutive failures is
\* min(2^(n-1), 60); it starts at 1, never exceeds 60, and the next delay is
\* never smaller.
BackoffSequence ==
    \A l \in Loops :
        failures[l] >= 1 =>
            /\ slept[l] = Min(2 ^ (failures[l] - 1), 60)
            /\ slept[l] <= 60
            /\ retry_delay[l] >= slept[l]
            /\ retry_delay[l] = Min(2 ^ failures[l], 60)

\* C10 witness: loops of both services have reached the cap.
BackoffCapWitness ==
    /\ failures["ingestor_mq"] >= 7
    /\ slept["ingestor_mq"] = 60
    /\ failures["processor_db"] >= 7
    /\ slept["processor_db"] = 60

\* The connect function of loop l has returned.
Returned(l) ==
    CASE l = "ingestor_mq" -> ingestor_pc # "connect"
      [] l = "processor_mq" -> pc # "connect_mq"
      [] l = "processor_db" -> pc \notin {"connect_mq", "connect_db"}

\* The connection the connect function of loop l returns.
Connection(l) ==
    CASE l = "ingestor_mq" -> ingConn
      [] l = "processor_mq" -> mqConn
      [] l = "processor_db" -> dbConn

\* C11: a connect function returns only with an established connection and only
\* while its endpoint accepts connections; a failed attempt leaves it in its
\* loop, where after any number of failures the next attempt can be made;
\* until it returns nothing is published, consumed or stored; and when the
\* endpoints eventually stay available, every connect function returns.
ConnectorBlocksUntilSuccess ==
    /\ [](\A l \in Loops : Returned(l) <=> Connection(l) = "open")
    /\ [][\A l \in Loops : (~Returned(l) /\ Returned(l)') => endpoint[l]]_vars
    /\ [][\A l \in Loops : slept'[l] > 0 => ~Returned(l)']_vars
    /\ [](ingestor_pc = "connect" => ENABLED (IngestorConnectFail \/ IngestorConnectOk))
    /\ [](pc = "connect_mq" => ENABLED (ProcessorMqConnectFail \/ ProcessorMqConnectOk))
    /\ [](pc = "connect_db" => ENABLED (ProcessorDbConnectFail \/ ProcessorDbConnectOk))
    /\ [](~Returned("ingestor_mq") => (sent = <<>> /\ queue = <<>>))
    /\ [](~Returned("processor_db") => (~registered /\ delivered = {} /\ games = {}))
    /\ (<>[]endpoint["ingestor_mq"]) => <>Returned("ingestor_mq")
    /\ (<>[]endpoint["processor_mq"]) => <>Returned("processor_mq")
    /\ (<>[](endpoint["processor_mq"] /\ endpoint["processor_db"]))
          => <>Returned("processor_db")

\* C11 witness: the ingestor and the processor's broker loop have returned with
\* open connections, and the database loop, after three failed attempts, finds
\* its endpoint available again.
ConnectorWitness ==
    /\ ingConn = "open"
    /\ mqConn = "open"
    /\ pc = "connect_db"
    /\ failures["processor_db"] >= 3
    /\ endpoint["processor_db"]

\* C16: when insert_game_data fails at the statement or at commit, the committed
\* rows stay what they were, the transaction is rolled back, and the function
\* returns False to process_message (which then rejects the message).
FailedWriteLeavesNoTrace ==
    [][/\ (pc \in {"execute", "commit"} /\ pc' = "rollback") => games' = games
       /\ (pc = "rollback" /\ pc' \notin {"rollback", "stopping"})
             => (pc' = SettleAfterInsert(FALSE) /\ txn' = <<>> /\ games' = games)]_vars

\* ---------------------------------------------------------- ingestor claims
RequiredColumns == {"Game ID", "Date", "Away Team", "Home Team"}

\* A cell that is absent, empty or whitespace-only.
Blank(cell) == cell = NULL \/ \A i \in 1..Len(cell[1]) : cell[1][i] \in Whitespace

\* Row number i has produced a record: main holds it or has published it.
RowYielded(i) ==
    \/ i = row_count /\ game_data # <<>>
    \/ \E j \in 1..Len(sent) : sent[j].row = i

\* The records row number i has produced.
RecordsOf(i) ==
    {game_data[j] : j \in {k \in 1..Len(game_data) : i = row_count}}
        \cup {sent[j].message : j \in {k \in 1..Len(sent) : sent[k].row = i}}

\* C12: a row whose Game ID is missing, blank, not an integer, zero or negative
\* produces no record, and every message on the queue carries a game_id that
\* is a positive integer.
NonPositiveGameIdRejected ==
    /\ \A i \in 1..row_count :
          LET cell == file.rows[i]["Game ID"]
          IN  (Blank(cell) \/ PyInt(cell[1]) = NULL \/ PyInt(cell[1])[1] <= 0)
                 => (validate_and_parse_row(file.rows[i]) = NULL /\ ~RowYielded(i))
    /\ \A j \in 1..Len(queue) :
          LET id == queue[j].value["game_id"] IN id # NULL /\ id[1] > 0

\* C13: a row in which Game ID, Date, Away Team or Home Team is absent, empty
\* or whitespace-only gets no record from validate_and_parse_row, is not
\* yielded by read_nfl_data and is never published.
RequiredFieldsEnforced ==
    \A i \in 1..row_count :
        (\E c \in RequiredColumns : Blank(file.rows[i][c]))
            => /\ validate_and_parse_row(file.rows[i]) = NULL
               /\ ~RowYielded(i)
               /\ Len(queue) <= Len(sent)

\* C13 witness: a row whose Home Team is whitespace-only and whose other cells
\* are those of the example row has been read and skipped.
RequiredFieldsWitness ==
    /\ row_count = 1
    /\ ingestor_pc = "read"
    /\ file.rows[1] = [ExampleRow EXCEPT !["Home Team"] = Some(<<" ", " ">>)]
    /\ sent = <<>>

\* The Gregorian calendar, written out: days of month m in year y.
CalendarDays(y, m) ==
    IF m = 2
    THEN IF y % 400 = 0 THEN 29 ELSE IF y % 100 = 0 THEN 28 ELSE IF y % 4 = 0 THEN 29 ELSE 28
    ELSE <<31, 0, 31, 30, 31, 30, 31, 31, 30, 31, 30, 31>>[m]

\* The eight digits t name a real date.
RealDate(t) ==
    LET y == DigitsValue(SubSeq(t, 1, 4))
        m == DigitsValue(SubSeq(t, 5, 6))
        d == DigitsValue(SubSeq(t, 7, 8))
    IN  y >= 1 /\ m >= 1 /\ m <= 12 /\ d >= 1 /\ d <= CalendarDays(y, m)

\* YYYY-MM-DD from the eight digits YYYYMMDD.
Dashed(t) ==
    JoinChars(SubSeq(t, 1, 4)) \o "-" \o JoinChars(SubSeq(t, 5, 6)) \o "-"
        \o JoinChars(SubSeq(t, 7, 8))

\* C14: for a Date of eight digits that is no real calendar date parse_date
\* yields no date and the row produces no record; for one that is a real date
\* parse_date yields it as YYYY-MM-DD and so does every record of the row.
DateCalendarChecked ==
    \A i \in 1..row_count :
        LET cell == file.rows[i]["Date"]
        IN  (cell # NULL /\ Len(cell[1]) = 8 /\ AllDigits(cell[1])) =>
                IF RealDate(cell[1])
                THEN /\ parse_date(cell) = Some(Dashed(cell[1]))
                     /\ \A r \in RecordsOf(i) : r["game_date"] = Some(Dashed(cell[1]))
                ELSE /\ parse_date(cell) = NULL
                     /\ validate_and_parse_row(file.rows[i]) = NULL
                     /\ ~RowYielded(i)

\* C14 witness: the row dated 20240229 has been published with 2024-02-29.
DateCalendarWitness ==
    /\ Len(sent) = 1
    /\ file.rows[1]["Date"] = Some(<<"2", "0", "2", "4", "0", "2", "2", "9">>)
    /\ sent[1].message["game_date"] = Some("2024-02-29")

\* C15: in every record, an optional numeric field whose cell is missing,
\* empty, whitespace-only or unparseable (a decimal in an integer column
\* included) is absent and not 0, and one whose cell is "0" is 0 and not
\* absent; a row whose required cells are those of the example row produces
\* its record whatever its optional cells hold.
AbsentIsNotZero ==
    \A i \in 1..row_count :
        /\ \A r \in RecordsOf(i) : \A k \in OptionalKeys :
              LET cell == file.rows[i][CsvColumn(k)]
              IN  /\ cell \in BlankCells \cup UnparseableCells => r[k] = NULL
                  /\ (cell \in DecimalCells /\ k \notin FloatKeys) => r[k] = NULL
                  /\ cell = ZeroCell => r[k] = Some(0)
        /\ (\A c \in RequiredColumns : file.rows[i][c] = ExampleRow[c]) => RowYielded(i)

\* C15 witness: a published record with home_score 0 read from the cell "0"
\* and an absent home_spread_open read from an empty cell.
AbsentIsNotZeroWitness ==
    /\ Len(sent) = 1
    /\ file.rows[1]["Home Score"] = ZeroCell
    /\ file.rows[1]["Home Spread Open"] = Some(<<>>)
    /\ sent[1].message["home_score"] = Some(0)
    /\ sent[1].message["home_spread_open"] = NULL

\* C17: a call of publish_message that fails publishes nothing and ends the
\* loop; from then on nothing more is published, no further row is read, and
\* the ingestor closes its connection and terminates.
PublishFailureAborts ==
    /\ [][(ingestor_pc = "publish" /\ outcome' = "publish_error")
             => (ingestor_pc' = "closing" /\ sent' = sent /\ queue' = queue)]_vars
    /\ [][outcome = "publish_error"
             => /\ sent' = sent /\ queue' = queue /\ row_count' = row_count
                /\ outcome' = outcome
                /\ ingestor_pc' \in {"closing", "done"}]_vars
    /\ []((outcome = "publish_error" /\ ingestor_pc = "done") => ingConn = "closed")
    /\ (outcome = "publish_error") ~> (ingestor_pc = "done")

\* C17 witness: the publish of the first of two rows failed; the ingestor has
\* terminated with nothing published and the second row never read.
PublishFailureWitness ==
    /\ outcome = "publish_error"
    /\ ingestor_pc = "done"
    /\ ingConn = "closed"
    /\ Len(file.rows) = 2
    /\ row_count = 1
    /\ sent = <<>>
    /\ queue = <<>>

\* A valid row: the four required cells are not blank, Game ID is a positive
\* integer, Date is eight digits naming a real calendar date.
IsValidRow(row) ==
    /\ \A c \in RequiredColumns : ~Blank(row[c])
    /\ PyInt(row["Game ID"][1]) # NULL /\ PyInt(row["Game ID"][1])[1] > 0
    /\ Len(row["Date"][1]) = 8 /\ AllDigits(row["Date"][1]) /\ RealDate(row["Date"][1])

ValidRowNumbers == {i \in 1..Len(file.rows) : IsValidRow(file.rows[i])}

\* C18: when the run ends without a publish failure, every row has been read,
\* the messages published are those of the valid rows, one for each, in file
\* order, and the connection is closed.
PublishesValidRowsInOrder ==
    (ingestor_pc = "done" /\ outcome = "ok") =>
        /\ row_count = Len(file.rows)
        /\ ingConn = "closed"
        /\ Len(sent) = Cardinality(ValidRowNumbers)
        /\ \A j \in 1..Len(sent) :
              /\ sent[j].row \in ValidRowNumbers
              /\ j > 1 => sent[j - 1].row < sent[j].row
              /\ sent[j].message["game_id"] = PyInt(file.rows[sent[j].row]["Game ID"][1])
              /\ sent[j].message["game_date"] = Some(Dashed(file.rows[sent[j].row]["Date"][1]))

\* C19 as claimed: with the input file missing the ingestor publishes nothing
\* and terminates with the file error reported.
MissingFileAborts ==
    /\ [](~file.exists => (sent = <<>> /\ queue = <<>>))
    /\ ~file.exists => <>(ingestor_pc = "done" /\ outcome = "file_error")

\* C19 amended: with the input file missing the ingestor publishes nothing and
\* reads no row; the file is looked for only after the broker connection is
\* established, and from then on the ingestor terminates, with the file error
\* reported and the connection closed.
MissingFileAbortsOnceConnected ==
    /\ [](~file.exists => (sent = <<>> /\ queue = <<>> /\ row_count = 0))
    /\ []((~file.exists /\ ingestor_pc = "connect") => outcome = "none")
    /\ []((~file.exists /\ ingestor_pc = "done")
            => (outcome = "file_error" /\ ingConn = "closed"))
    /\ (~file.exists /\ ingestor_pc = "connected") ~> (ingestor_pc = "done")

\* C19 witness: the run on a missing file has ended with the file error.
MissingFileWitness ==
    /\ ~file.exists
    /\ ingestor_pc = "done"
    /\ outcome = "file_error"
    /\ ingConn = "closed"
    /\ published = 0

\* The game_id a valid row names.
GameIdOf(row) == PyInt(row["Game ID"][1])

\* The last valid row of the file that names the same game as row number i.
LastRowFor(i) ==
    CHOOSE k \in ValidRowNumbers :
        /\ GameIdOf(file.rows[k]) = GameIdOf(file.rows[i])
        /\ \A n \in ValidRowNumbers :
              GameIdOf(file.rows[n]) = GameIdOf(file.rows[i]) => n <= k

\* The values the example row stands for.
ExampleRecord ==
    [c \in InsertColumns |->
        CASE c = "game_id" -> Some(5001)
          [] c = "game_date" -> Some("2023-09-10")
          [] c = "away_team" -> Some("Bills")
          [] c = "home_team" -> Some("Jets")
          [] c = "away_score" -> Some(22)
          [] c = "home_score" -> Some(16)
          [] c = "away_spread_open" -> Some(-35)
          [] c = "away_spread_open_odds" -> Some(-110)
          [] c = "over_open" -> Some(415)
          [] OTHER -> NULL]

\* The stored row of game gid holds the values of input row r.
StoredFrom(gid, r) ==
    /\ Cardinality(RowsOf(games, gid)) = 1
    /\ \A row \in RowsOf(games, gid) :
          /\ \A c \in InsertColumns : row[c] = BuildRecord(r)[c]
          /\ r = ExampleRow => \A c \in InsertColumns : row[c] = ExampleRecord[c]

\* C20: in a run without failures every message published carries the game_id
\* and game_date of its row and no row is published twice; and eventually, for
\* good, every valid row has exactly one message, every message has been
\* handed to the consumer and none is left queued or unacknowledged, and the
\* table holds for each valid row's game exactly one row, with the values of
\* the last valid row of the file for that game.
EndToEndDelivery ==
    /\ [](\A j \in 1..Len(sent) :
             /\ sent[j].message["game_id"] = GameIdOf(file.rows[sent[j].row])
             /\ IsValidRow(file.rows[sent[j].row])
                   => sent[j].message["game_date"]
                         = Some(Dashed(file.rows[sent[j].row]["Date"][1]))
             /\ \A k \in 1..Len(sent) : sent[k].row = sent[j].row => k = j)
    /\ <>[](/\ \A i \in ValidRowNumbers :
                  /\ \E j \in 1..Len(sent) : sent[j].row = i
                  /\ StoredFrom(GameIdOf(file.rows[i]), file.rows[LastRowFor(i)])
            /\ \A j \in 1..Len(sent) : ObjectBody(sent[j].message) \in delivered
            /\ queue = <<>> /\ unacked = <<>> /\ cur = <<>>)

\* C20 witness: the file holds the example row and then the update for the same
\* game; both were published, applied and acknowledged, and the table holds one
\* row for game 5001, with the update's score and no opening spread.
EndToEndWitness ==
    /\ file.rows = <<ExampleRow, UpdateRow>>
    /\ Len(sent) = 2
    /\ ingestor_pc = "done"
    /\ pc = "consuming"
    /\ queue = <<>> /\ unacked = <<>>
    /\ Cardinality(games) = 1
    /\ \A row \in games :
          /\ row["game_id"] = Some(5001)
          /\ row["away_score"] = Some(7)
          /\ row["home_score"] = NULL
          /\ row["away_spread_open"] = NULL

\* ------------------------------------------------- sequential handling
\* process_message returns normally: the acknowledge or reject call succeeded.
SettleStep ==
    /\ pc \in {"ack"} \cup NackPcs
    /\ pc' = "consuming"
    /\ cur = <<Head(unacked)>>
    /\ unacked' = Tail(unacked)

\* C21: message handling in the consumer is strictly sequential.  While a
\* message is being handled it is the only one; its handling begins only when
\* no message is in handling and no transaction is open; within a run of the
\* process a message leaves handling only by its acknowledge or reject call;
\* and an open transaction is that of the message in handling.
SequentialHandling ==
    /\ [](pc \in ProcessingPcs => cur # <<>>)
    /\ [](txn # <<>> => cur # <<>> /\ pc \in {"commit", "stopping", "closing"})
    /\ [][(pc # "decode" /\ pc' = "decode")
              => (pc = "consuming" /\ cur = <<>> /\ txn = <<>>)]_vars
    /\ [][(cur # <<>> /\ cur' # cur) => (cur' = <<>> /\ (SettleStep \/ pc = "done"))]_vars
    /\ [][(pc \in ProcessingPcs /\ pc' = "consuming") => SettleStep /\ cur' = <<>>]_vars

\* C21 witness: two messages were published; the first was stored and
\* acknowledged, and the second is now being decoded, alone, with no
\* transaction open.
SequentialHandlingWitness ==
    /\ pc = "decode"
    /\ published = 2
    /\ queue = <<>>
    /\ Len(unacked) = 1
    /\ cur = <<unacked[1]>>
    /\ Cardinality(delivered) = 2
    /\ Cardinality(games) = 1
    /\ txn = <<>>
    /\ signal = "none"

\* ------------------------------------------------------ settling a delivery
\* process_message returns normally.
ReturnsNormally == pc \in ProcessingPcs /\ pc' = "consuming"

\* C22: each delivery is settled exactly once.  Whenever process_message returns
\* normally, it returns from a basic_ack or basic_nack call, no other such call
\* was made before for that delivery, and the call settled the delivery in
\* hand; at no time has process_message made more than one such call unless
\* the first, basic_ack, raised on a lost connection, and then the basic_nack
\* that follows raises too and process_message does not return normally.
SettledExactlyOnce ==
    /\ [][ReturnsNormally
            => /\ pc \in {"ack"} \cup NackPcs
               /\ settle_calls = <<>>
               /\ unacked # <<>>
               /\ cur = <<Head(unacked)>>
               /\ unacked' = Tail(unacked)]_vars
    /\ [](settle_calls # <<>>
            => /\ settle_calls = <<"basic_ack">>
               /\ mqConn # "open"
               /\ pc \in {"nack_unexpected", "stopping", "closing"})
    /\ [][(settle_calls # <<>> /\ pc = "nack_unexpected" /\ pc' # pc)
            => pc' \in {"closing", "stopping"}]_vars

\* C22 witness: the one message published was handed to process_message,
\* rejected by basic_nack and is gone from the broker with nothing stored; the
\* consumer waits for the next delivery on the same connection.
SettledExactlyOnceWitness ==
    /\ pc = "consuming"
    /\ mqConn = "open"
    /\ published = 1
    /\ delivered # {}
    /\ cur = <<>>
    /\ queue = <<>> /\ unacked = <<>>
    /\ games = {}

====
